---------------------------- MODULE Spec2Model ----------------------------
(***************************************************************************)
(* A model of gfpgan/archs/gfpganv1_arch.py:                               *)
(*   - StyleGAN2GeneratorSFT.forward, one action per statement group;      *)
(*   - ConvUpLayer.__init__ and ResUpBlock.__init__;                       *)
(*   - FacialComponentDiscriminator.forward.                               *)
(* Tensors are abstracted: the batch axis and the spatial axes are         *)
(* dropped; a style vector is one integer per layer slice, a feature map   *)
(* is one integer per channel.  A Python Optional is a sequence of length  *)
(* at most one: <<>> is None, <<x>> is the value x.                        *)
(***************************************************************************)
EXTENDS Integers, Sequences, FiniteSets

VARIABLES
    pc,            \* position inside StyleGAN2GeneratorSFT.forward
    self,          \* the generator instance
    args,          \* the arguments of the call, as the caller passed them
    styles,        \* local: styles (reassigned at lines 74 and 86)
    noise,         \* local: noise  (<<>> is None, <<list>> once resolved)
    inject_index,  \* local: inject_index (<<>> is None)
    latent,        \* local: latent (<<>> while unbound, <<slices>> once bound)
    out,           \* local: out, one integer per channel
    skip,          \* local: skip (<<>> before to_rgb1)
    i,             \* local: the loop counter i
    calls,         \* history: the layer calls made, in program order
    sft_log,       \* history: each SFT step: the conditions read, its input and output
    result,        \* the value returned (<<>> until the call returns)
    err,           \* the exception raised (<<>> when none)
    cu,            \* a ConvUpLayer under construction
    ru,            \* a ResUpBlock under construction
    d              \* a FacialComponentDiscriminator.forward call

gvars == <<pc, self, args, styles, noise, inject_index, latent, out, skip, i,
           calls, sft_log, result, err>>
vars == <<pc, self, args, styles, noise, inject_index, latent, out, skip, i,
          calls, sft_log, result, err, cu, ru, d>>

(***************************************************************************)
(* Bounds of the model.                                                    *)
(***************************************************************************)
MaxLogSize == 4
MaxStyleVal == 1
MaxChannels == 4
MaxCondBase == 1
FeatMod == 5
MaxConvChannels == 2
MaxImage == 2

(***************************************************************************)
(* Python helpers.                                                         *)
(***************************************************************************)
None == <<>>
Some(x) == <<x>>
IsNone(o) == o = <<>>

Min(S) == CHOOSE x \in S : \A y \in S : x <= y

RECURSIVE SeqSum(_)
SeqSum(s) == IF s = <<>> THEN 0 ELSE Head(s) + SeqSum(Tail(s))

\* len(s[start::step]) for start >= 0, step >= 1
PySliceLen(n, start, step) ==
    IF n > start THEN ((n - start) + step - 1) \div step ELSE 0

\* s[start::step]
PySlice(s, start, step) ==
    [k \in 1..PySliceLen(Len(s), start, step) |-> s[start + step * (k - 1) + 1]]

\* [0, 1, ..., n-1]
Range(n) == [k \in 1..n |-> k - 1]

(***************************************************************************)
(* The generator instance.  num_layers, num_latent, style_convs and        *)
(* to_rgbs are set by the base class constructor that __init__ calls:      *)
(* log_size = log2(out_size), num_layers = (log_size - 2) * 2 + 1,         *)
(* num_latent = log_size * 2 - 2, two style convolutions and one to-RGB    *)
(* layer per resolution above 4x4.  Every level has the same number of     *)
(* channels here.                                                          *)
(***************************************************************************)
Generator(log_size, sft_half, channels) ==
    [ log_size   |-> log_size,
      num_layers |-> (log_size - 2) * 2 + 1,
      num_latent |-> log_size * 2 - 2,
      sft_half   |-> sft_half,
      channels   |-> channels ]

style_convs(g) == Range(g.num_layers - 1)
to_rgbs(g) == Range(g.log_size - 2)

(***************************************************************************)
(* Style inputs.  A style is [ndim, v]: a 2-D style (batch, style_dim) has *)
(* one entry in v, a 3-D style (batch, layers, style_dim) one per layer.   *)
(***************************************************************************)
Style2D(x) == [ndim |-> 2, v |-> <<x>>]
Style3D(n) == [ndim |-> 3, v |-> [k \in 1..n |-> 2 * k]]

Styles2D == {Style2D(2 * x) : x \in 0..MaxStyleVal}
Styles3D(g) == {Style3D(n) : n \in (g.num_latent - 1)..g.num_latent}

StyleLists(g) ==
    {<<>>}
    \cup {<<s>> : s \in Styles2D \cup Styles3D(g)}
    \cup {<<a, b>> : a \in Styles2D, b \in Styles2D}
    \cup {<<Style3D(g.num_latent), a>> : a \in Styles2D}
    \cup {<<a, a, a>> : a \in Styles2D}

\* a caller's noise list of n tensors; tensor k is named by its position
NoiseList(n) == [k \in 1..n |-> Some(k - 1)]

\* a caller's conditions list of n tensors, each broadcast over the channels
Conditions(n, base) == [k \in 1..n |-> base + k]

(***************************************************************************)
(* The layers of the base library, abstracted to deterministic functions   *)
(* of their inputs.  A noise of None is sampled inside the layer; the      *)
(* sampled value is abstracted to 0.                                       *)
(***************************************************************************)
NoiseVal(n) == IF IsNone(n) THEN 0 ELSE n[1] + 1

style_mlp(s) == [s EXCEPT !.v = [k \in 1..Len(s.v) |-> 2 * s.v[k] + 2]]

constant_input(g) == [c \in 1..g.channels |-> 1]

StyledConv(x, style, n) ==
    [c \in 1..Len(x) |-> (SeqSum(x) + c * style + NoiseVal(n)) % FeatMod]

ToRGB(x, style, sk) ==
    (SeqSum(x) + style + (IF IsNone(sk) THEN 0 ELSE 2 * sk[1])) % FeatMod

(***************************************************************************)
(* Lines 82-86: style truncation.  args.truncation counts halves: 2 is the *)
(* default ratio 1, 1 is the ratio 1/2.                                    *)
(***************************************************************************)
Truncate(s, t, center) ==
    [s EXCEPT !.v = [k \in 1..Len(s.v) |-> center + (t * (s.v[k] - center)) \div 2]]

(***************************************************************************)
(* Lines 93, 99, 100: style.unsqueeze(1).repeat(1, n, 1).  repeat raises   *)
(* on a negative count, and on a 3-D style (unsqueeze makes it 4-D, more   *)
(* dimensions than repeat is given).                                       *)
(***************************************************************************)
Repeat(s, n) ==
    IF s.ndim = 2 /\ n >= 0
    THEN Some([k \in 1..n |-> s.v[1]])
    ELSE None

\* mutant: the number of style convolutions instead of the number of latents
SingleInjectIndexLayers(g) == g.num_layers

\* line 89: inject_index = self.num_latent
SingleInjectIndex(g) == g.num_latent

\* mutant: the upper end one too far
InjectChoicesWide(g) == 1..g.num_latent

\* line 98: random.randint(1, self.num_latent - 1), both ends included
InjectChoices(g) == 1..(g.num_latent - 1)

\* mutant: the two parts concatenated in the other order
CatSwapped(latent1, latent2) == latent2 \o latent1

\* line 101: torch.cat([latent1, latent2], 1)
Cat(latent1, latent2) == latent1 \o latent2

\* mutant: the second noise slice starts one entry late
ZipLenLateNoise(g, nz) ==
    Min({ Len(PySlice(style_convs(g), 0, 2)),
          Len(PySlice(style_convs(g), 1, 2)),
          Len(PySlice(nz, 1, 2)),
          Len(PySlice(nz, 3, 2)),
          Len(to_rgbs(g)) })

(***************************************************************************)
(* Lines 109-110: the zip stops at its shortest argument.                  *)
(***************************************************************************)
ZipLen(g, nz) ==
    Min({ Len(PySlice(style_convs(g), 0, 2)),
          Len(PySlice(style_convs(g), 1, 2)),
          Len(PySlice(nz, 1, 2)),
          Len(PySlice(nz, 2, 2)),
          Len(to_rgbs(g)) })

\* the loop's level, from the counter i = 1, 3, 5, ...
Level(ii) == (ii - 1) \div 2

(***************************************************************************)
(* Lines 116-121: the SFT step.  torch.split(out, C // 2, dim=1) cuts out  *)
(* into chunks of C // 2 channels (the last one smaller); it raises for a  *)
(* chunk size of 0, and unpacking into two names raises unless there are   *)
(* exactly two chunks.                                                     *)
(***************************************************************************)
SplitChunks(x, size) ==
    [k \in 1..((Len(x) + size - 1) \div size) |->
        SubSeq(x, (k - 1) * size + 1,
               IF k * size <= Len(x) THEN k * size ELSE Len(x))]

\* line 117 runs without raising
SplitOK(x) ==
    /\ Len(x) \div 2 > 0
    /\ Len(SplitChunks(x, Len(x) \div 2)) = 2

\* out * scale + shift, the conditions broadcast over the channels
SFT(x, scale, shift) == [c \in 1..Len(x) |-> x[c] * scale + shift]

\* mutant: the first chunk is transformed and the second kept
SFTHalfFirst(x, scale, shift) ==
    LET chunks == SplitChunks(x, Len(x) \div 2)
    IN SFT(chunks[1], scale, shift) \o chunks[2]

\* lines 117-119, for an out that SplitOK
SFTHalf(x, scale, shift) ==
    LET chunks == SplitChunks(x, Len(x) \div 2)
        out_same == chunks[1]
        out_sft == SFT(chunks[2], scale, shift)
    IN out_same \o out_sft

SFTStep(g, x, scale, shift) ==
    IF g.sft_half THEN SFTHalf(x, scale, shift) ELSE SFT(x, scale, shift)

\* line 114: the conditions may have fewer levels
HasCondition(ii, conds) == ii < Len(conds)

(***************************************************************************)
(* Initial states of a forward call: the generator and the arguments.      *)
(* Two families of calls are enumerated: one varies what latent expansion  *)
(* reads (styles, input_is_latent, truncation, inject_index), the other    *)
(* what the synthesis loop reads (noise, conditions, sft_half, channels).  *)
(***************************************************************************)
LogSizes == 3..MaxLogSize

InjectArgs(g) == {None} \cup {Some(k) : k \in 0..(g.num_latent + 1)}

ExpansionCalls ==
    UNION { LET g == Generator(ls, FALSE, 2) IN {
        <<g,
          [ styles |-> st, conditions |-> <<>>, input_is_latent |-> il,
            noise |-> None, randomize_noise |-> FALSE, truncation |-> t,
            truncation_latent |-> tl, inject_index |-> ix,
            return_latents |-> FALSE ]>> :
          st \in StyleLists(g), il \in BOOLEAN, t \in 1..2,
          tl \in {None, Some(0)}, ix \in InjectArgs(g) } :
        ls \in LogSizes }

\* the arguments noise and randomize_noise
NoiseArgs(g) ==
    {<<None, TRUE>>, <<None, FALSE>>}
    \cup {<<Some(NoiseList(n)), TRUE>> : n \in 0..(g.num_layers + 1)}

SynthesisCalls ==
    UNION { UNION { LET g == Generator(ls, FALSE, ch) IN {
        <<[g EXCEPT !.sft_half = half],
          [ styles |-> <<s>>, conditions |-> Conditions(nc, base),
            input_is_latent |-> TRUE, noise |-> nz[1], randomize_noise |-> nz[2],
            truncation |-> 2, truncation_latent |-> None,
            inject_index |-> None, return_latents |-> TRUE ]>> :
          half \in BOOLEAN, s \in {Style2D(0)} \cup Styles3D(g),
          nc \in 0..(g.num_layers + 2), base \in 1..MaxCondBase,
          nz \in NoiseArgs(g) } :
        ch \in 1..MaxChannels } : ls \in LogSizes }

InitGen ==
    /\ \E c \in ExpansionCalls \cup SynthesisCalls :
            /\ self = c[1]
            /\ args = c[2]
    /\ pc = "mlp"
    /\ styles = args.styles
    /\ noise = args.noise
    /\ inject_index = args.inject_index
    /\ latent = None
    /\ out = <<>>
    /\ skip = None
    /\ i = 0
    /\ calls = <<>>
    /\ sft_log = <<>>
    /\ result = None
    /\ err = None

Raise(kind, line) ==
    /\ pc' = "error"
    /\ err' = Some([kind |-> kind, line |-> line])

Call(op, layer, lat, nz) == [op |-> op, layer |-> layer, lat |-> lat, noise |-> nz]

(***************************************************************************)
(* Lines 73-74: style codes -> latents with the style MLP.                 *)
(***************************************************************************)
StyleMLP ==
    /\ pc = "mlp"
    /\ styles' = IF ~args.input_is_latent
                 THEN [k \in 1..Len(styles) |-> style_mlp(styles[k])]
                 ELSE styles
    /\ pc' = "noise"
    /\ UNCHANGED <<self, args, noise, inject_index, latent, out, skip, i,
                   calls, sft_log, result, err, cu, ru, d>>

(***************************************************************************)
(* Lines 76-80: noises.  Both branches build a list of num_layers entries: *)
(* None for each layer, or the stored buffers noise0 .. noise{n-1}.        *)
(***************************************************************************)
ResolveNoise ==
    /\ pc = "noise"
    /\ noise' = IF IsNone(noise)
                THEN IF args.randomize_noise
                     THEN Some([k \in 1..self.num_layers |-> None])
                     ELSE Some(NoiseList(self.num_layers))
                ELSE noise
    /\ pc' = "trunc"
    /\ UNCHANGED <<self, args, styles, inject_index, latent, out, skip, i,
                   calls, sft_log, result, err, cu, ru, d>>

(***************************************************************************)
(* Lines 82-86: style truncation; the arithmetic raises TypeError on a     *)
(* truncation_latent of None.                                              *)
(***************************************************************************)
StyleTruncation ==
    /\ pc = "trunc"
    /\ IF args.truncation < 2
       THEN IF styles # <<>> /\ IsNone(args.truncation_latent)
            THEN /\ Raise("TypeError", 85)
                 /\ UNCHANGED styles
            ELSE /\ styles' = [k \in 1..Len(styles) |->
                        Truncate(styles[k], args.truncation, args.truncation_latent[1])]
                 /\ pc' = "expand"
                 /\ UNCHANGED err
       ELSE /\ pc' = "expand"
            /\ UNCHANGED <<styles, err>>
    /\ UNCHANGED <<self, args, noise, inject_index, latent, out, skip, i,
                   calls, sft_log, result, cu, ru, d>>

(***************************************************************************)
(* Lines 88-101: get style latents with injection.  There is no else       *)
(* branch: with any other number of styles nothing is assigned.            *)
(***************************************************************************)
ExpandLatent ==
    /\ pc = "expand"
    /\ IF Len(styles) = 1
       THEN /\ inject_index' = Some(SingleInjectIndex(self))
            /\ IF styles[1].ndim < 3
               THEN latent' = Repeat(styles[1], inject_index'[1])
               ELSE latent' = Some(styles[1].v)
            /\ pc' = "const"
            /\ UNCHANGED err
       ELSE IF Len(styles) = 2
       THEN \E k \in (IF IsNone(inject_index) THEN InjectChoices(self)
                      ELSE {inject_index[1]}) :
              LET latent1 == Repeat(styles[1], k)
                  latent2 == Repeat(styles[2], self.num_latent - k)
              IN /\ inject_index' = Some(k)
                 /\ IF IsNone(latent1)
                    THEN Raise("RuntimeError", 99) /\ UNCHANGED latent
                    ELSE IF IsNone(latent2)
                    THEN Raise("RuntimeError", 100) /\ UNCHANGED latent
                    ELSE /\ latent' = Some(Cat(latent1[1], latent2[1]))
                         /\ pc' = "const"
                         /\ UNCHANGED err
       ELSE /\ pc' = "const"
            /\ UNCHANGED <<inject_index, latent, err>>
    /\ UNCHANGED <<self, args, styles, noise, out, skip, i,
                   calls, sft_log, result, cu, ru, d>>

(***************************************************************************)
(* Line 104: out = self.constant_input(latent.shape[0]).  Reading the      *)
(* local latent while it is unbound raises UnboundLocalError before        *)
(* constant_input is called.                                               *)
(***************************************************************************)
ConstantInput ==
    /\ pc = "const"
    /\ IF IsNone(latent)
       THEN /\ Raise("UnboundLocalError", 104)
            /\ UNCHANGED <<out, calls>>
       ELSE /\ out' = constant_input(self)
            /\ calls' = Append(calls, Call("constant_input", 0, None, None))
            /\ pc' = "style_conv1"
            /\ UNCHANGED err
    /\ UNCHANGED <<self, args, styles, noise, inject_index, latent, skip, i,
                   sft_log, result, cu, ru, d>>

\* latent[:, n] is an IndexError unless 0 <= n < the number of slices
HasSlice(n) == n < Len(latent[1])

\* mutant: to_rgb reads the slice of conv2
ToRgbSliceOfConv2(ii) == ii + 1

\* lines 111, 123, 124: the latent slices of conv1, conv2 and to_rgb
Conv1Slice(ii) == ii
Conv2Slice(ii) == ii + 1
ToRgbSlice(ii) == ii + 2

(***************************************************************************)
(* Line 105: out = self.style_conv1(out, latent[:, 0], noise=noise[0]).    *)
(***************************************************************************)
StyleConv1 ==
    /\ pc = "style_conv1"
    /\ IF ~HasSlice(0) \/ Len(noise[1]) = 0
       THEN /\ Raise("IndexError", 105)
            /\ UNCHANGED <<out, calls>>
       ELSE /\ out' = StyledConv(out, latent[1][1], noise[1][1])
            /\ calls' = Append(calls, Call("style_conv1", 0, Some(0), Some(0)))
            /\ pc' = "to_rgb1"
            /\ UNCHANGED err
    /\ UNCHANGED <<self, args, styles, noise, inject_index, latent, skip, i,
                   sft_log, result, cu, ru, d>>

(***************************************************************************)
(* Lines 106-108: skip = self.to_rgb1(out, latent[:, 1]); i = 1.           *)
(***************************************************************************)
ToRgb1 ==
    /\ pc = "to_rgb1"
    /\ IF ~HasSlice(1)
       THEN /\ Raise("IndexError", 106)
            /\ UNCHANGED <<skip, calls, i>>
       ELSE /\ skip' = Some(ToRGB(out, latent[1][2], None))
            /\ calls' = Append(calls, Call("to_rgb1", 0, Some(1), None))
            /\ i' = 1
            /\ pc' = "loop"
            /\ UNCHANGED err
    /\ UNCHANGED <<self, args, styles, noise, inject_index, latent, out,
                   sft_log, result, cu, ru, d>>

(***************************************************************************)
(* Lines 109-111: the next tuple of the zip, and                           *)
(* out = conv1(out, latent[:, i], noise=noise1).                           *)
(***************************************************************************)
LoopConv1 ==
    /\ pc = "loop"
    /\ Level(i) < ZipLen(self, noise[1])
    /\ LET j == Level(i)
           conv1 == PySlice(style_convs(self), 0, 2)[j + 1]
           n1 == PySlice(Range(Len(noise[1])), 1, 2)[j + 1]
       IN IF ~HasSlice(Conv1Slice(i))
          THEN /\ Raise("IndexError", 111)
               /\ UNCHANGED <<out, calls>>
          ELSE /\ out' = StyledConv(out, latent[1][Conv1Slice(i) + 1], noise[1][n1 + 1])
               /\ calls' = Append(calls, Call("conv1", conv1, Some(Conv1Slice(i)), Some(n1)))
               /\ pc' = "sft"
               /\ UNCHANGED err
    /\ UNCHANGED <<self, args, styles, noise, inject_index, latent, skip, i,
                   sft_log, result, cu, ru, d>>

\* conditions[n] is an IndexError unless 0 <= n < len(conditions)
HasEntry(n) == 0 <= n /\ n < Len(args.conditions)

\* mutant: the shift read one entry further
CondShiftIndexNext(ii) == ii + 1

\* lines 118, 121: conditions[i - 1] is the scale, conditions[i] the shift
CondScaleIndex(ii) == ii - 1
CondShiftIndex(ii) == ii

(***************************************************************************)
(* Lines 113-121: the SFT part, applied while conditions remain.  In half  *)
(* mode the split of line 117 comes before the conditions are read.        *)
(***************************************************************************)
LoopSFT ==
    /\ pc = "sft"
    /\ IF HasCondition(i, args.conditions)
       THEN IF self.sft_half /\ ~SplitOK(out)
            THEN /\ Raise("SplitError", 117)
                 /\ UNCHANGED <<out, sft_log>>
            ELSE IF ~HasEntry(CondScaleIndex(i)) \/ ~HasEntry(CondShiftIndex(i))
            THEN /\ Raise("IndexError", 118)
                 /\ UNCHANGED <<out, sft_log>>
            ELSE LET scale == args.conditions[CondScaleIndex(i) + 1]
                     shift == args.conditions[CondShiftIndex(i) + 1]
                     new == SFTStep(self, out, scale, shift)
                 IN /\ out' = new
                    /\ sft_log' = Append(sft_log,
                          [level |-> Level(i), before |-> out, after |-> new,
                           scale_index |-> CondScaleIndex(i),
                           shift_index |-> CondShiftIndex(i),
                           scale |-> scale, shift |-> shift])
                    /\ pc' = "conv2"
                    /\ UNCHANGED err
       ELSE /\ pc' = "conv2"
            /\ UNCHANGED <<out, sft_log, err>>
    /\ UNCHANGED <<self, args, styles, noise, inject_index, latent, skip, i,
                   calls, result, cu, ru, d>>

(***************************************************************************)
(* Line 123: out = conv2(out, latent[:, i + 1], noise=noise2).             *)
(***************************************************************************)
LoopConv2 ==
    /\ pc = "conv2"
    /\ LET j == Level(i)
           conv2 == PySlice(style_convs(self), 1, 2)[j + 1]
           n2 == PySlice(Range(Len(noise[1])), 2, 2)[j + 1]
       IN IF ~HasSlice(Conv2Slice(i))
          THEN /\ Raise("IndexError", 123)
               /\ UNCHANGED <<out, calls>>
          ELSE /\ out' = StyledConv(out, latent[1][Conv2Slice(i) + 1], noise[1][n2 + 1])
               /\ calls' = Append(calls, Call("conv2", conv2, Some(Conv2Slice(i)), Some(n2)))
               /\ pc' = "to_rgb"
               /\ UNCHANGED err
    /\ UNCHANGED <<self, args, styles, noise, inject_index, latent, skip, i,
                   sft_log, result, cu, ru, d>>

(***************************************************************************)
(* Lines 124-125: skip = to_rgb(out, latent[:, i + 2], skip); i += 2.      *)
(***************************************************************************)
LoopToRgb ==
    /\ pc = "to_rgb"
    /\ LET j == Level(i)
           to_rgb == to_rgbs(self)[j + 1]
       IN IF ~HasSlice(ToRgbSlice(i))
          THEN /\ Raise("IndexError", 124)
               /\ UNCHANGED <<skip, calls, i>>
          ELSE /\ skip' = Some(ToRGB(out, latent[1][ToRgbSlice(i) + 1], skip))
               /\ calls' = Append(calls, Call("to_rgb", to_rgb, Some(ToRgbSlice(i)), None))
               /\ i' = i + 2
               /\ pc' = "loop"
               /\ UNCHANGED err
    /\ UNCHANGED <<self, args, styles, noise, inject_index, latent, out,
                   sft_log, result, cu, ru, d>>

(***************************************************************************)
(* Lines 127-132: image = skip; return image, latent or image, None.       *)
(***************************************************************************)
Return ==
    /\ pc = "loop"
    /\ Level(i) >= ZipLen(self, noise[1])
    /\ result' = Some([image |-> skip[1],
                       latent |-> IF args.return_latents THEN latent ELSE None])
    /\ pc' = "done"
    /\ UNCHANGED <<self, args, styles, noise, inject_index, latent, out, skip, i,
                   calls, sft_log, err, cu, ru, d>>

GenIdle ==
    /\ pc = "idle"
    /\ self = Generator(3, FALSE, 2)
    /\ args = [styles |-> <<>>]
    /\ styles = <<>>
    /\ noise = None
    /\ inject_index = None
    /\ latent = None
    /\ out = <<>>
    /\ skip = None
    /\ i = 0
    /\ calls = <<>>
    /\ sft_log = <<>>
    /\ result = None
    /\ err = None

Idle == [pc |-> "idle"]

(***************************************************************************)
(* ConvUpLayer.__init__, lines 149-181.  weight is kept by its shape; the  *)
(* scale 1 / sqrt(in_channels * kernel_size^2) by the number under the     *)
(* root.                                                                   *)
(***************************************************************************)
\* mutant: the bias parameter is created whenever bias is requested
ConvUpBiasAlways(bias, activate, out_channels, bias_init_val) ==
    IF bias
    THEN Some([c \in 1..out_channels |-> bias_init_val])
    ELSE None

\* lines 169-172: the free bias parameter
ConvUpBias(bias, activate, out_channels, bias_init_val) ==
    IF bias /\ ~activate
    THEN Some([c \in 1..out_channels |-> bias_init_val])
    ELSE None

\* lines 175-181: the activation
ConvUpActivation(bias, activate, out_channels) ==
    IF activate
    THEN IF bias
         THEN Some([kind |-> "FusedLeakyReLU", bias |-> [c \in 1..out_channels |-> 0]])
         ELSE Some([kind |-> "ScaledLeakyReLU", bias |-> <<>>])
    ELSE None

ConvUpLayer(a) ==
    [ in_channels  |-> a.in_channels,
      out_channels |-> a.out_channels,
      kernel_size  |-> a.kernel_size,
      stride       |-> a.stride,
      padding      |-> a.padding,
      scale_inv_sq |-> a.in_channels * a.kernel_size * a.kernel_size,
      weight       |-> <<a.out_channels, a.in_channels, a.kernel_size, a.kernel_size>>,
      bias         |-> ConvUpBias(a.bias, a.activate, a.out_channels, a.bias_init_val),
      activation   |-> ConvUpActivation(a.bias, a.activate, a.out_channels) ]

ConvUpArgs(in_channels, out_channels, kernel_size, stride, padding, bias, bias_init_val, activate) ==
    [ in_channels |-> in_channels, out_channels |-> out_channels,
      kernel_size |-> kernel_size, stride |-> stride, padding |-> padding,
      bias |-> bias, bias_init_val |-> bias_init_val, activate |-> activate ]

InitConvUp ==
    \E ic \in 1..MaxConvChannels, oc \in 1..MaxConvChannels, ks \in {1, 3},
       pad \in 0..1, b \in BOOLEAN, biv \in 0..1, act \in BOOLEAN :
        cu = [pc |-> "new", args |-> ConvUpArgs(ic, oc, ks, 1, pad, b, biv, act)]

ConvUpLayerInit ==
    /\ cu.pc = "new"
    /\ cu' = [pc |-> "built", args |-> cu.args, layer |-> ConvUpLayer(cu.args)]
    /\ UNCHANGED <<gvars, ru, d>>

(***************************************************************************)
(* ResUpBlock.__init__, lines 208-213.  conv1 is a ConvLayer of the base   *)
(* library, kept by its arguments.                                         *)
(***************************************************************************)
ResUpBlock(in_channels, out_channels) ==
    [ conv1 |-> [in_channels |-> in_channels, out_channels |-> in_channels,
                 kernel_size |-> 3, bias |-> TRUE, activate |-> TRUE],
      conv2 |-> ConvUpLayer(ConvUpArgs(in_channels, out_channels, 3, 1, 1, TRUE, 0, TRUE)),
      skip  |-> ConvUpLayer(ConvUpArgs(in_channels, out_channels, 1, 1, 0, FALSE, 0, FALSE)) ]

InitResUp ==
    \E ic \in 1..MaxConvChannels, oc \in 1..MaxConvChannels :
        ru = [pc |-> "new", in_channels |-> ic, out_channels |-> oc]

ResUpBlockInit ==
    /\ ru.pc = "new"
    /\ ru' = [pc |-> "built", in_channels |-> ru.in_channels,
              out_channels |-> ru.out_channels,
              block |-> ResUpBlock(ru.in_channels, ru.out_channels)]
    /\ UNCHANGED <<gvars, cu, d>>

(***************************************************************************)
(* FacialComponentDiscriminator, lines 316-346.  A feature map is kept by  *)
(* its channel count, its spatial size, the image it comes from and the    *)
(* layers applied to it, in order.                                         *)
(***************************************************************************)
ConvLayer(name, in_channels, out_channels, downsample) ==
    [ name |-> name, in_channels |-> in_channels, out_channels |-> out_channels,
      downsample |-> downsample ]

\* lines 319-324
Discriminator ==
    [ conv1      |-> ConvLayer("conv1", 3, 64, FALSE),
      conv2      |-> ConvLayer("conv2", 64, 128, TRUE),
      conv3      |-> ConvLayer("conv3", 128, 128, FALSE),
      conv4      |-> ConvLayer("conv4", 128, 256, TRUE),
      conv5      |-> ConvLayer("conv5", 256, 256, FALSE),
      final_conv |-> ConvLayer("final_conv", 256, 1, FALSE) ]

\* a convolution raises unless its input has in_channels channels
ApplyConv(layer, x) ==
    IF IsNone(x) \/ x[1].ch # layer.in_channels
    THEN None
    ELSE Some([ ch   |-> layer.out_channels,
                size |-> IF layer.downsample THEN x[1].size \div 2 ELSE x[1].size,
                src  |-> x[1].src,
                by   |-> Append(x[1].by, layer.name) ])

\* line 333
DiscLine333(x) == ApplyConv(Discriminator.conv1, Some(x))
\* mutant: conv3 left out
DiscLine334NoConv3(feat) == ApplyConv(Discriminator.conv2, Some(feat))

\* line 334
DiscLine334(feat) == ApplyConv(Discriminator.conv3, ApplyConv(Discriminator.conv2, Some(feat)))
\* line 338
DiscLine338(feat) == ApplyConv(Discriminator.conv5, ApplyConv(Discriminator.conv4, Some(feat)))
\* line 341
DiscLine341(feat) == ApplyConv(Discriminator.final_conv, Some(feat))

Images ==
    [ ch : {1, 3}, size : {8, 16}, src : 0..MaxImage, by : {<<>>} ]

InitDisc ==
    \E x \in Images, rf \in BOOLEAN :
        d = [pc |-> "conv1", x |-> x, return_feats |-> rf, feat |-> None,
             rlt_feats |-> None, out |-> None, result |-> None]

DiscStep(new, field, next) ==
    /\ d' = IF IsNone(new)
            THEN [d EXCEPT !.pc = "error"]
            ELSE [d EXCEPT !.pc = next, ![field] = new]
    /\ UNCHANGED <<gvars, cu, ru>>

DiscConv1 ==
    /\ d.pc = "conv1"
    /\ DiscStep(DiscLine333(d.x), "feat", "conv3")

DiscConv3 ==
    /\ d.pc = "conv3"
    /\ DiscStep(DiscLine334(d.feat[1]), "feat", "feats1")

\* lines 335-337
DiscFeats1 ==
    /\ d.pc = "feats1"
    /\ d' = [d EXCEPT !.pc = "conv5",
                      !.rlt_feats = Some(IF d.return_feats THEN <<d.feat[1]>> ELSE <<>>)]
    /\ UNCHANGED <<gvars, cu, ru>>

DiscConv5 ==
    /\ d.pc = "conv5"
    /\ DiscStep(DiscLine338(d.feat[1]), "feat", "feats2")

\* lines 339-340
DiscFeats2 ==
    /\ d.pc = "feats2"
    /\ d' = [d EXCEPT !.pc = "final_conv",
                      !.rlt_feats = IF d.return_feats
                                    THEN Some(Append(d.rlt_feats[1], d.feat[1]))
                                    ELSE d.rlt_feats]
    /\ UNCHANGED <<gvars, cu, ru>>

DiscFinalConv ==
    /\ d.pc = "final_conv"
    /\ DiscStep(DiscLine341(d.feat[1]), "out", "return")

\* lines 343-346
DiscReturn ==
    /\ d.pc = "return"
    /\ d' = [d EXCEPT !.pc = "done",
                      !.result = Some([out |-> d.out[1],
                                       feats |-> IF d.return_feats THEN d.rlt_feats ELSE None])]
    /\ UNCHANGED <<gvars, cu, ru>>

(***************************************************************************)
(* The specification: one forward call of the generator, or one            *)
(* construction of a ConvUpLayer, or of a ResUpBlock, or one forward call  *)
(* of the discriminator.                                                   *)
(***************************************************************************)
Init ==
    \/ InitGen /\ cu = Idle /\ ru = Idle /\ d = Idle
    \/ GenIdle /\ InitConvUp /\ ru = Idle /\ d = Idle
    \/ GenIdle /\ cu = Idle /\ InitResUp /\ d = Idle
    \/ GenIdle /\ cu = Idle /\ ru = Idle /\ InitDisc

Next ==
    \/ StyleMLP
    \/ ResolveNoise
    \/ StyleTruncation
    \/ ExpandLatent
    \/ ConstantInput
    \/ StyleConv1
    \/ ToRgb1
    \/ LoopConv1
    \/ LoopSFT
    \/ LoopConv2
    \/ LoopToRgb
    \/ Return
    \/ ConvUpLayerInit
    \/ ResUpBlockInit
    \/ DiscConv1
    \/ DiscConv3
    \/ DiscFeats1
    \/ DiscConv5
    \/ DiscFeats2
    \/ DiscFinalConv
    \/ DiscReturn

Spec == Init /\ [][Next]_vars

(***************************************************************************)
(* Properties of StyleGAN2GeneratorSFT.forward.                            *)
(***************************************************************************)
\* latent expansion (lines 88-101) has run to its end without raising
PastExpansion ==
    \/ pc \in {"const", "style_conv1", "to_rgb1", "loop", "sft", "conv2", "to_rgb", "done"}
    \/ pc = "error" /\ err[1].line >= 104

\* the caller's n-th style after the style MLP and the truncation
MappedTruncated(n) ==
    LET mapped == IF args.input_is_latent THEN args.styles[n]
                  ELSE style_mlp(args.styles[n])
    IN IF args.truncation < 2
       THEN Truncate(mapped, args.truncation, args.truncation_latent[1])
       ELSE mapped

All2D(st) == \A n \in 1..Len(st) : st[n].ndim = 2

\* C1: with exactly two 2-D styles and a supplied injection index k,
\* 1 <= k <= num_latent - 1, the expanded latent has num_latent slices;
\* slice j is the first style's mapped, truncated latent for j < k and the
\* second style's for j >= k.
C1_TwoStyleMixing ==
    ( /\ pc # "idle"
      /\ Len(args.styles) = 2
      /\ All2D(args.styles)
      /\ ~IsNone(args.inject_index)
      /\ args.inject_index[1] \in 1..(self.num_latent - 1)
      /\ PastExpansion )
    => /\ ~IsNone(latent)
       /\ Len(latent[1]) = self.num_latent
       /\ \A j \in 0..(self.num_latent - 1) :
            latent[1][j + 1] = IF j < args.inject_index[1]
                               THEN MappedTruncated(1).v[1]
                               ELSE MappedTruncated(2).v[1]

C1_Witness ==
    /\ pc = "const"
    /\ Len(args.styles) = 2
    /\ All2D(args.styles)
    /\ args.inject_index = Some(2)
    /\ ~args.input_is_latent
    /\ args.truncation < 2
    /\ latent[1][2] # latent[1][3]

\* C2: with a single 2-D style, whatever inject_index the caller passes, the
\* expanded latent has num_latent slices (one per layer that takes a style,
\* num_layers + 1), every one of them that style's mapped, truncated latent.
C2_SingleStyleRepeat ==
    ( /\ pc # "idle"
      /\ Len(args.styles) = 1
      /\ All2D(args.styles)
      /\ PastExpansion )
    => /\ ~IsNone(latent)
       /\ Len(latent[1]) = self.num_latent
       /\ Len(latent[1]) = self.num_layers + 1
       /\ \A j \in 1..Len(latent[1]) : latent[1][j] = MappedTruncated(1).v[1]

C2_Witness ==
    /\ pc = "const"
    /\ Len(args.styles) = 1
    /\ All2D(args.styles)
    /\ args.inject_index = Some(1)
    /\ ~args.input_is_latent
    /\ Len(latent[1]) = self.num_latent

\* the two-style calls that leave the injection index to the generator
RandomMixing ==
    /\ pc # "idle"
    /\ Len(args.styles) = 2
    /\ All2D(args.styles)
    /\ IsNone(args.inject_index)
    /\ PastExpansion

\* C6 as stated: with two styles and no inject_index supplied, every index
\* the call can pick lies in [1, num_layers - 1].
C6_Original ==
    RandomMixing => inject_index[1] \in 1..(self.num_layers - 1)

\* C6 as amended: with two styles and no inject_index supplied, every index
\* the call can pick lies in [1, num_latent - 1] = [1, num_layers], so each
\* of the two styles fills at least one slice and the latent has num_latent
\* slices.
C6_InjectIndexRange ==
    RandomMixing
    => /\ inject_index[1] \in 1..(self.num_latent - 1)
       /\ inject_index[1] \in 1..self.num_layers
       /\ Len(latent[1]) = self.num_latent
       /\ latent[1][1] = styles[1].v[1]
       /\ latent[1][self.num_latent] = styles[2].v[1]

C6_Witness ==
    /\ RandomMixing
    /\ inject_index[1] = self.num_layers
    /\ styles[1] # styles[2]

\* C5 as stated: a call with more than two styles ends in an error raised at
\* the latent-expansion step (lines 88-101): it never gets past that step,
\* runs no constant input, style convolution or to-RGB, and returns nothing.
\* (Calls whose truncation arguments raise before the step are left out.)
C5_Original ==
    ( /\ pc # "idle"
      /\ Len(args.styles) > 2
      /\ (args.truncation < 2 => ~IsNone(args.truncation_latent)) )
    => /\ pc \in {"mlp", "noise", "trunc", "expand", "error"}
       /\ pc = "error" => err[1].line \in 88..101
       /\ calls = <<>>
       /\ IsNone(result)

\* the to-RGB steps made so far: to_rgb1 plus one per loop iteration
RgbSteps ==
    Cardinality({n \in 1..Len(calls) : calls[n].op \in {"to_rgb1", "to_rgb"}})

ExpectedRgbSteps == (self.num_layers - 1) \div 2 + 1

\* C3 as stated, for the calls that return: the number of to-RGB steps is
\* exactly (num_layers - 1) / 2 + 1.
C3_Original ==
    pc = "done" => RgbSteps = ExpectedRgbSteps

\* C3 as amended: a call that returns and whose noise list has at least
\* num_layers entries (always so when noise is None) has made exactly
\* (num_layers - 1) / 2 + 1 to-RGB steps, for every length of conditions;
\* and no call fails on a read of conditions, however few are supplied.
C3_RgbSteps ==
    /\ (pc = "done" /\ Len(noise[1]) >= self.num_layers)
         => RgbSteps = ExpectedRgbSteps
    /\ pc = "error" => err[1].line # 118

C3_Witness ==
    /\ pc = "done"
    /\ Len(args.conditions) = 2
    /\ self.num_layers = 5
    /\ ~IsNone(args.noise)
    /\ Len(noise[1]) = self.num_layers + 1
    /\ RgbSteps = 3

\* C4: at every level where SFT is applied, in half mode the channels
\* [0, C // 2) are unchanged and the others become value * scale + shift;
\* in full mode every channel becomes value * scale + shift.
C4_SFTChannels ==
    \A n \in 1..Len(sft_log) :
        LET e == sft_log[n]
            C == Len(e.before)
        IN /\ Len(e.after) = C
           /\ \A c \in 1..C :
                e.after[c] = IF self.sft_half /\ c <= C \div 2
                             THEN e.before[c]
                             ELSE e.before[c] * e.scale + e.shift
           /\ (pc = "conv2" /\ e.level = Level(i)) => out = e.after

C4_Witness ==
    /\ pc = "conv2"
    /\ self.sft_half
    /\ self.channels = 4
    /\ Len(sft_log) = 2
    /\ SubSeq(out, 1, 2) # SubSeq(out, 3, 4)

\* the levels whose SFT part (lines 113-121) has been passed
LevelPassed(j) ==
    \/ j < Level(i)
    \/ j = Level(i) /\ pc \in {"conv2", "to_rgb"}

Modulated(j) == \E n \in 1..Len(sft_log) : sft_log[n].level = j

\* C9: at level j (i = 2j + 1) SFT is applied iff 2j + 1 < len(conditions),
\* with conditions[2j] as scale and conditions[2j + 1] as shift; no index
\* outside the list is read, no entry is used at two levels, and after an
\* unmodulated level every later level is unmodulated.
C9_ConditionPairing ==
    /\ \A j \in 0..Len(to_rgbs(self)) :
         LevelPassed(j) => (Modulated(j) <=> 2 * j + 1 < Len(args.conditions))
    /\ \A n \in 1..Len(sft_log) :
         LET e == sft_log[n] IN
         /\ e.scale_index = 2 * e.level
         /\ e.shift_index = 2 * e.level + 1
         /\ {e.scale_index, e.shift_index} \subseteq 0..(Len(args.conditions) - 1)
         /\ e.scale = args.conditions[2 * e.level + 1]
         /\ e.shift = args.conditions[2 * e.level + 2]
         /\ \A m \in 1..Len(sft_log) :
              m # n => /\ sft_log[m].level # e.level
                       /\ {sft_log[m].scale_index, sft_log[m].shift_index}
                            \cap {e.scale_index, e.shift_index} = {}
    /\ pc = "error" => err[1].line # 118
    /\ \A j1, j2 \in 0..Len(to_rgbs(self)) :
         (j1 < j2 /\ LevelPassed(j2) /\ ~Modulated(j1)) => ~Modulated(j2)

C9_Witness ==
    /\ pc = "done"
    /\ self.num_layers = 5
    /\ Len(args.conditions) = 3
    /\ Modulated(0)
    /\ ~Modulated(1)

\* the call reads a latent of num_layers + 1 slices and a noise list of
\* num_layers entries
FullLengths ==
    /\ pc # "idle"
    /\ ~IsNone(latent)
    /\ Len(latent[1]) = self.num_layers + 1
    /\ ~IsNone(noise)
    /\ Len(noise[1]) = self.num_layers

\* the calls that read a latent slice, in program order
StyleCalls == SelectSeq(calls, LAMBDA c : c.op # "constant_input")

\* C10: with a latent of num_layers + 1 slices and a noise list of
\* num_layers entries, style_conv1 reads slice 0 and to_rgb1 slice 1, the
\* j-th iteration's conv1, conv2 and to_rgb read slices 2j+1, 2j+2, 2j+3,
\* all within [0, num_layers]; the last to-RGB reads slice num_layers; each
\* to-RGB shares its slice with the next level's conv1; noise entry 0 is
\* used by style_conv1 only and every later entry by exactly one style
\* convolution.
C10_SliceIndices ==
    FullLengths =>
    /\ ~(pc = "error" /\ err[1].line \in 105..124 /\ err[1].kind = "IndexError")
    /\ \A n \in 1..Len(StyleCalls) :
         LET c == StyleCalls[n]
             j == (n - 3) \div 3
         IN /\ c.lat[1] \in 0..self.num_layers
            /\ n = 1 => c.op = "style_conv1" /\ c.lat = Some(0) /\ c.noise = Some(0)
            /\ n = 2 => c.op = "to_rgb1" /\ c.lat = Some(1) /\ c.noise = None
            /\ (n > 2 /\ n % 3 = 0) =>
                 c.op = "conv1" /\ c.lat = Some(2 * j + 1) /\ c.noise = Some(2 * j + 1)
                 /\ c.lat = StyleCalls[n - 1].lat
            /\ (n > 2 /\ n % 3 = 1) =>
                 c.op = "conv2" /\ c.lat = Some(2 * j + 2) /\ c.noise = Some(2 * j + 2)
            /\ (n > 2 /\ n % 3 = 2) =>
                 c.op = "to_rgb" /\ c.lat = Some(2 * j + 3) /\ c.noise = None
    /\ \A n, m \in 1..Len(StyleCalls) :
         (n # m /\ ~IsNone(StyleCalls[n].noise))
            => StyleCalls[n].noise # StyleCalls[m].noise
    /\ pc = "done" =>
         /\ StyleCalls[Len(StyleCalls)].op \in {"to_rgb1", "to_rgb"}
         /\ StyleCalls[Len(StyleCalls)].lat = Some(self.num_layers)
         /\ \A k \in 0..(self.num_layers - 1) :
              \E n \in 1..Len(StyleCalls) : StyleCalls[n].noise = Some(k)

C10_Witness ==
    /\ FullLengths
    /\ pc = "done"
    /\ self.num_layers = 5
    /\ Len(StyleCalls) = 8
    /\ ~IsNone(args.noise)

(***************************************************************************)
(* Properties of ConvUpLayer.__init__ and ResUpBlock.__init__.             *)
(***************************************************************************)
\* C7 as stated: constructing a ConvUpLayer with bias and activation both
\* requested fails instead of yielding a layer.
C7_Original ==
    ~(cu.pc = "built" /\ cu.args.bias /\ cu.args.activate)

\* C7 as amended: every (bias, activate) configuration yields a layer; a
\* free bias parameter exists iff bias is requested and activation is not;
\* with both requested the layer has no free bias and the bias is fused into
\* a FusedLeakyReLU activation, as for conv2 of every ResUpBlock.
C7_BiasActivation ==
    /\ cu.pc \in {"idle", "new", "built"}
    /\ cu.pc = "built" =>
         /\ ~IsNone(cu.layer.bias) <=> (cu.args.bias /\ ~cu.args.activate)
         /\ ~IsNone(cu.layer.bias) =>
              cu.layer.bias[1] = [c \in 1..cu.args.out_channels |-> cu.args.bias_init_val]
         /\ (cu.args.bias /\ cu.args.activate) =>
              /\ IsNone(cu.layer.bias)
              /\ cu.layer.activation[1].kind = "FusedLeakyReLU"
    /\ ru.pc = "built" =>
         /\ IsNone(ru.block.conv2.bias)
         /\ ru.block.conv2.activation[1].kind = "FusedLeakyReLU"
         /\ IsNone(ru.block.skip.bias)
         /\ IsNone(ru.block.skip.activation)

C7_Witness ==
    /\ cu.pc = "built"
    /\ cu.args.bias
    /\ cu.args.activate
    /\ IsNone(cu.layer.bias)

(***************************************************************************)
(* Properties of FacialComponentDiscriminator.forward.                     *)
(***************************************************************************)
AllConvs == <<"conv1", "conv2", "conv3", "conv4", "conv5", "final_conv">>

\* C8: the six convolutions are applied in the fixed order conv1 .. conv5,
\* final_conv; with return_feats the call returns exactly two features, the
\* first captured right after conv3 (128 channels), the second right after
\* conv5 (256 channels); without it the features are None; the logit is the
\* same in both modes.
C8_DiscriminatorFeats ==
    d.pc = "done" =>
        LET r == d.result[1] IN
        /\ r.out.by = AllConvs
        /\ r.out.src = d.x.src
        /\ r.out.ch = 1
        /\ r.out.size = d.x.size \div 4
        /\ d.return_feats =>
             /\ ~IsNone(r.feats)
             /\ Len(r.feats[1]) = 2
             /\ r.feats[1][1].by = SubSeq(AllConvs, 1, 3)
             /\ r.feats[1][1].ch = 128
             /\ r.feats[1][2].by = SubSeq(AllConvs, 1, 5)
             /\ r.feats[1][2].ch = 256
        /\ ~d.return_feats => IsNone(r.feats)

C8_Witness ==
    /\ d.pc = "done"
    /\ d.return_feats
    /\ Len(d.result[1].feats[1]) = 2

=============================================================================
